---- MODULE Spec2Model ----
(***************************************************************************)
(* ovr-sys: raw bindings to LibOVR 1.15.0.                                 *)
(*                                                                         *)
(* The crate has two kinds of content that carry a checkable meaning:      *)
(*   - the ovrResult classification helpers OVR_SUCCESS,                   *)
(*     OVR_UNQUALIFIED_SUCCESS and OVR_FAILURE over the ovrSuccess_* and   *)
(*     ovrError_* constants (src/src/lib.rs 120-288);                      *)
(*   - #[repr(C)] struct declarations whose sizes the packing test         *)
(*     asserts (src/src/lib.rs 2958-3045, 3104-3108).                      *)
(* SpecResult applies the helpers to result codes; SpecLayout lays the     *)
(* structs out field by field for the 32- and 64-bit Windows targets.      *)
(***************************************************************************)
EXTENDS Integers, Sequences, FiniteSets, TLC

VARIABLES
    width,        \* target_pointer_width of the compilation target: 32 or 64
    r,            \* the ovrResult an API call returned
    called,       \* the helpers the caller has applied to r so far
    success,      \* OVR_SUCCESS(r), once called
    unqualified,  \* OVR_UNQUALIFIED_SUCCESS(r), once called
    failure,      \* OVR_FAILURE(r), once called
    pc,           \* layout: "idle", "fields" (placing fields) or "done"
    ty,           \* layout: the type whose size_of is being computed
    idx,          \* layout: index of the next field to place
    offset,       \* layout: offset of the first byte after the placed fields
    align,        \* layout: largest field alignment seen so far
    padding,      \* layout: bytes of implicit (compiler-inserted) padding so far
    offsets,      \* layout: offsets of the fields placed so far
    size,         \* layout: size_of(ty) once pc = "done"
    verdict,      \* packing test: "none", "pass", or "panic" (an assert! failed)
    bpc,          \* build.rs: "idle", "split", "path", "search", "lib", "done", "panicked"
    target,       \* build.rs: the TARGET environment variable, a string of symbols
    manifest,     \* build.rs: CARGO_MANIFEST_DIR, as path components
    arch,         \* build.rs: triple[0]
    sys,          \* build.rs: triple[2]
    path,         \* build.rs: the PathBuf, as path components
    lib_name,     \* build.rs: "" until assigned
    stdout,       \* build.rs: the cargo: directives printed so far
    panic,        \* build.rs: the panic message, "" if none
    features,     \* rustc: the Cargo features enabled (--cfg feature="..")
    cfgWindows,   \* rustc: whether cfg(windows) holds for the target
    item,         \* rustc: index of the next cfg-gated item of lib.rs, 0 if idle
    crates,       \* rustc: the extern crates kept after cfg evaluation
    modules,      \* rustc: the sub-modules kept after cfg evaluation
    kpc,          \* property key: "idle", "scan", "done" or "overrun"
    key,          \* property key: name of the constant handed to the C side
    pos,          \* property key: index of the byte the C side reads next
    text          \* property key: the bytes the C side has read as the name

resultVars == <<r, called, success, unqualified, failure>>
layoutVars == <<pc, ty, idx, offset, align, padding, offsets, size, verdict>>
buildVars == <<bpc, target, manifest, arch, sys, path, lib_name, stdout, panic>>
cfgVars == <<features, cfgWindows, item, crates, modules>>
keyVars == <<kpc, key, pos, text>>
vars == <<width, r, called, success, unqualified, failure,
          pc, ty, idx, offset, align, padding, offsets, size, verdict,
          bpc, target, manifest, arch, sys, path, lib_name, stdout, panic,
          features, cfgWindows, item, crates, modules,
          kpc, key, pos, text>>

(***************************************************************************)
(* Bounds.                                                                 *)
(***************************************************************************)
\* Result codes -MaxResult..MaxResult are tried besides the named constants,
\* their neighbours and the two ends of the i32 range.
MaxResult == 3

\* TARGET values of 1..MaxTargetParts '-'-separated components are tried.
MaxTargetParts == 4

(***************************************************************************)
(* ovrResult and its constants.                                            *)
(***************************************************************************)
\* pub type ovrResult = i32
I32Max == 2147483647
I32Min == -I32Max - 1
ovrResult == I32Min .. I32Max

ovrSuccess == 0

ovrSuccessTypes ==
    [ ovrSuccess_NotVisible        |-> 1000,
      ovrSuccess_BoundaryInvalid   |-> 1001,
      ovrSuccess_DeviceUnavailable |-> 1002 ]

ovrErrorType_General ==
    [ ovrError_MemoryAllocationFailure   |-> -1000,
      ovrError_InvalidSession            |-> -1002,
      ovrError_Timeout                   |-> -1003,
      ovrError_NotInitialized            |-> -1004,
      ovrError_InvalidParameter          |-> -1005,
      ovrError_ServiceError              |-> -1006,
      ovrError_NoHmd                     |-> -1007,
      ovrError_Unsupported               |-> -1009,
      ovrError_DeviceUnavailable         |-> -1010,
      ovrError_InvalidHeadsetOrientation |-> -1011,
      ovrError_ClientSkippedDestroy      |-> -1012,
      ovrError_ClientSkippedShutdown     |-> -1013,
      ovrError_ServiceDeadlockDetected   |-> -1014,
      ovrError_InvalidOperation          |-> -1015 ]

\* The second audio code written with the value of the first.
ovrErrorType_Audio_Repeated ==
    [ ovrError_AudioDeviceNotFound |-> -2001,
      ovrError_AudioComError       |-> -2001 ]

ovrErrorType_Audio ==
    [ ovrError_AudioDeviceNotFound |-> -2001,
      ovrError_AudioComError       |-> -2002 ]

ovrErrorType_Initialization ==
    [ ovrError_Initialize                 |-> -3000,
      ovrError_LibLoad                    |-> -3001,
      ovrError_LibVersion                 |-> -3002,
      ovrError_ServiceConnection          |-> -3003,
      ovrError_ServiceVersion             |-> -3004,
      ovrError_IncompatibleOS             |-> -3005,
      ovrError_DisplayInit                |-> -3006,
      ovrError_ServerStart                |-> -3007,
      ovrError_Reinitialization           |-> -3008,
      ovrError_MismatchedAdapters         |-> -3009,
      ovrError_LeakingResources           |-> -3010,
      ovrError_ClientVersion              |-> -3011,
      ovrError_OutOfDateOS                |-> -3012,
      ovrError_OutOfDateGfxDriver         |-> -3013,
      ovrError_IncompatibleGPU            |-> -3014,
      ovrError_NoValidVRDisplaySystem     |-> -3015,
      ovrError_Obsolete                   |-> -3016,
      ovrError_DisabledOrDefaultAdapter   |-> -3017,
      ovrError_HybridGraphicsNotSupported |-> -3018,
      ovrError_DisplayManagerInit         |-> -3019,
      ovrError_TrackerDriverInit          |-> -3020,
      ovrError_LibSignCheck               |-> -3021,
      ovrError_LibPath                    |-> -3022,
      ovrError_LibSymbols                 |-> -3023,
      ovrError_RemoteSession              |-> -3024 ]

ovrErrorType_Rendering ==
    [ ovrError_DisplayLost                   |-> -6000,
      ovrError_TextureSwapChainFull          |-> -6001,
      ovrError_TextureSwapChainInvalid       |-> -6002,
      ovrError_GraphicsDeviceReset           |-> -6003,
      ovrError_DisplayRemoved                |-> -6004,
      ovrError_ContentProtectionNotAvailable |-> -6005,
      ovrError_ApplicationInvisible          |-> -6006,
      ovrError_Disallowed                    |-> -6007,
      ovrError_DisplayPluggedIncorrectly     |-> -6008 ]

ovrErrorType_Fatal ==
    [ ovrError_RuntimeException |-> -7000 ]

\* A calibration code written without its minus sign.
ovrErrorType_Calibration_Unsigned ==
    [ ovrError_NoCalibration     |-> -9000,
      ovrError_OldVersion        |-> 9001,
      ovrError_MisformattedBlock |-> -9002 ]

ovrErrorType_Calibration ==
    [ ovrError_NoCalibration     |-> -9000,
      ovrError_OldVersion        |-> -9001,
      ovrError_MisformattedBlock |-> -9002 ]

\* Every ovrError_* constant of lib.rs, by name.
ovrErrorType ==
    ovrErrorType_General @@ ovrErrorType_Audio @@ ovrErrorType_Initialization
      @@ ovrErrorType_Rendering @@ ovrErrorType_Fatal @@ ovrErrorType_Calibration

Values(f) == { f[n] : n \in DOMAIN f }

ErrorCodes   == Values(ovrErrorType)
SuccessCodes == {ovrSuccess} \cup Values(ovrSuccessTypes)
NamedCodes   == ErrorCodes \cup SuccessCodes

\* Every ovrResult constant of lib.rs, by name.
ResultConstants ==
    [ ovrSuccess |-> ovrSuccess ] @@ ovrSuccessTypes @@ ovrErrorType

(***************************************************************************)
(* The classification helpers (function-like C macros in the header).      *)
(***************************************************************************)
\* The comparison written with > instead of >=.
OVR_SUCCESS_Strict(res) == res > 0

OVR_SUCCESS(res) == res >= 0

\* The test written as OVR_SUCCESS instead of an equality with ovrSuccess.
OVR_UNQUALIFIED_SUCCESS_Any(res) == OVR_SUCCESS(res)

OVR_UNQUALIFIED_SUCCESS(res) == res = ovrSuccess

\* The negation applied to the unqualified test instead of OVR_SUCCESS.
OVR_FAILURE_Unqualified(res) == ~OVR_UNQUALIFIED_SUCCESS(res)

OVR_FAILURE(res) == ~OVR_SUCCESS(res)

\* The result codes an API call is made to return here.
ResultInputs ==
    ( NamedCodes
      \cup { c - 1 : c \in NamedCodes } \cup { c + 1 : c \in NamedCodes }
      \cup (-MaxResult .. MaxResult)
      \cup { I32Min, I32Max } ) \cap ovrResult

(***************************************************************************)
(* Result actions: an extern "C" call returns r, the caller classifies it. *)
(***************************************************************************)
InitResult ==
    /\ r = ovrSuccess
    /\ called = {}
    /\ success = FALSE
    /\ unqualified = FALSE
    /\ failure = FALSE

\* Any ovr_* entry point returning ovrResult.
ApiCall ==
    /\ \E res \in ResultInputs : r' = res
    /\ called' = {}
    /\ success' = FALSE
    /\ unqualified' = FALSE
    /\ failure' = FALSE
    /\ UNCHANGED <<width, buildVars, cfgVars, keyVars, layoutVars>>

CallSuccess ==
    /\ "OVR_SUCCESS" \notin called
    /\ called' = called \cup {"OVR_SUCCESS"}
    /\ success' = OVR_SUCCESS(r)
    /\ UNCHANGED <<width, buildVars, cfgVars, keyVars, r, unqualified, failure, layoutVars>>

CallUnqualifiedSuccess ==
    /\ "OVR_UNQUALIFIED_SUCCESS" \notin called
    /\ called' = called \cup {"OVR_UNQUALIFIED_SUCCESS"}
    /\ unqualified' = OVR_UNQUALIFIED_SUCCESS(r)
    /\ UNCHANGED <<width, buildVars, cfgVars, keyVars, r, success, failure, layoutVars>>

CallFailure ==
    /\ "OVR_FAILURE" \notin called
    /\ called' = called \cup {"OVR_FAILURE"}
    /\ failure' = OVR_FAILURE(r)
    /\ UNCHANGED <<width, buildVars, cfgVars, keyVars, r, success, unqualified, layoutVars>>

NextResult == ApiCall \/ CallSuccess \/ CallUnqualifiedSuccess \/ CallFailure

(***************************************************************************)
(* Types.  A field is [name, type, count]: count is 1 for a scalar field  *)
(* and n for an array [T; n] (0 for the zero-sized _align arrays).        *)
(***************************************************************************)
F(n, t, c) == [name |-> n, type |-> t, count |-> c]

\* #[cfg(target_pointer_width = "32")] / #[cfg(target_pointer_width = "64")]
PointerWidths == {32, 64}

\* Size in bytes of the primitive types the declarations use.  build.rs
\* accepts Windows targets only; there c_char = i8, c_short = i16,
\* c_int = i32, c_uint = u32, and usize, isize, function pointers ("fn")
\* and raw pointers ("ptr") are one pointer wide.
PrimSize(t, pw) ==
    CASE t \in {"c_char", "u8"}                   -> 1
      [] t \in {"c_short"}                        -> 2
      [] t \in {"c_int", "c_uint", "i32", "u32", "f32"} -> 4
      [] t \in {"u64", "f64"}                     -> 8
      [] t \in {"usize", "isize", "fn", "ptr"}    -> pw \div 8

\* On the Windows x86 and x86_64 ABIs every primitive is aligned to its size
\* (u64 and f64 to 8 on both).
PrimAlign(t, pw) == PrimSize(t, pw)

ovrEye_Count == 2

\* pub type X = T (use libc::c_uint as c_unsigned).  ovrLogCallback is
\* Option<extern "C" fn(..)>, which has the representation of a nullable
\* function pointer; ovrProcessId is the cfg(windows) definition;
\* ovrTextureSwapChain is *mut ovrTextureSwapChainData.
TypeAlias ==
    [ ovrBool         |-> "c_char",
      ovrHmdType      |-> "i32",
      ovrHmdCaps      |-> "i32",
      ovrTrackingCaps |-> "i32",
      ovrEyeType      |-> "i32",
      ovrStatusBits   |-> "i32",
      ovrInitFlags    |-> "i32",
      ovrLogLevel     |-> "i32",
      ovrLogCallback  |-> "fn",
      c_unsigned      |-> "c_uint",
      ovrProcessId    |-> "u32",
      ovrLayerType    |-> "i32",
      ovrTextureSwapChain |-> "ptr" ]

ovrVector2i ==
    << F("_align", "u32", 0), F("x", "c_int", 1), F("y", "c_int", 1) >>

ovrSizei ==
    << F("_align", "u32", 0), F("w", "c_int", 1), F("h", "c_int", 1) >>

ovrRecti ==
    << F("_align", "u32", 0), F("Pos", "ovrVector2i", 1), F("Size", "ovrSizei", 1) >>

ovrQuatf ==
    << F("_align", "u32", 0),
       F("x", "f32", 1), F("y", "f32", 1), F("z", "f32", 1), F("w", "f32", 1) >>

ovrVector2f ==
    << F("_align", "u32", 0), F("x", "f32", 1), F("y", "f32", 1) >>

ovrVector3f ==
    << F("_align", "u32", 0), F("x", "f32", 1), F("y", "f32", 1), F("z", "f32", 1) >>

\* M: [[f32; 4]; 4]
ovrMatrix4f ==
    << F("_align", "u32", 0), F("M", "f32", 4 * 4) >>

ovrPosef ==
    << F("_align", "u32", 0),
       F("Orientation", "ovrQuatf", 1), F("Position", "ovrVector3f", 1) >>

\* The declaration without its explicit _pad0.
ovrPoseStatef_NoPad ==
    << F("_align", "u64", 0),
       F("ThePose", "ovrPosef", 1),
       F("AngularVelocity", "ovrVector3f", 1),
       F("LinearVelocity", "ovrVector3f", 1),
       F("AngularAcceleration", "ovrVector3f", 1),
       F("LinearAcceleration", "ovrVector3f", 1),
       F("TimeInSeconds", "f64", 1) >>

ovrPoseStatef ==
    << F("_align", "u64", 0),
       F("ThePose", "ovrPosef", 1),
       F("AngularVelocity", "ovrVector3f", 1),
       F("LinearVelocity", "ovrVector3f", 1),
       F("AngularAcceleration", "ovrVector3f", 1),
       F("LinearAcceleration", "ovrVector3f", 1),
       F("_pad0", "u8", 4),
       F("TimeInSeconds", "f64", 1) >>

ovrFovPort ==
    << F("_align", "u32", 0),
       F("UpTan", "f32", 1), F("DownTan", "f32", 1),
       F("LeftTan", "f32", 1), F("RightTan", "f32", 1) >>

\* #[cfg(target_pointer_width = "32")]
ovrHmdDesc_32 ==
    << F("_align", "isize", 0),
       F("Type", "ovrHmdType", 1),
       F("ProductName", "c_char", 64),
       F("Manufacturer", "c_char", 64),
       F("VendorId", "c_short", 1),
       F("ProductId", "c_short", 1),
       F("SerialNumber", "c_char", 24),
       F("FirmwareMajor", "c_short", 1),
       F("FirmwareMinor", "c_short", 1),
       F("AvailableHmdCaps", "c_uint", 1),
       F("DefaultHmdCaps", "c_uint", 1),
       F("AvailableTrackingCaps", "c_uint", 1),
       F("DefaultTrackingCaps", "c_uint", 1),
       F("DefaultEyeFov", "ovrFovPort", ovrEye_Count),
       F("MaxEyeFov", "ovrFovPort", ovrEye_Count),
       F("Resolution", "ovrSizei", 1),
       F("DisplayRefreshRate", "f32", 1) >>

\* #[cfg(target_pointer_width = "64")]
ovrHmdDesc_64 ==
    << F("_align", "isize", 0),
       F("Type", "ovrHmdType", 1),
       F("_pad0", "u8", 4),
       F("ProductName", "c_char", 64),
       F("Manufacturer", "c_char", 64),
       F("VendorId", "c_short", 1),
       F("ProductId", "c_short", 1),
       F("SerialNumber", "c_char", 24),
       F("FirmwareMajor", "c_short", 1),
       F("FirmwareMinor", "c_short", 1),
       F("AvailableHmdCaps", "c_uint", 1),
       F("DefaultHmdCaps", "c_uint", 1),
       F("AvailableTrackingCaps", "c_uint", 1),
       F("DefaultTrackingCaps", "c_uint", 1),
       F("DefaultEyeFov", "ovrFovPort", ovrEye_Count),
       F("MaxEyeFov", "ovrFovPort", ovrEye_Count),
       F("Resolution", "ovrSizei", 1),
       F("DisplayRefreshRate", "f32", 1),
       F("_pad1", "u8", 4) >>

\* One declaration for both widths, with the padding fields.
ovrHmdDesc_AlwaysPadded(pw) == ovrHmdDesc_64

\* The declaration of ovrHmdDesc that cfg keeps for pointer width pw.
ovrHmdDesc(pw) == IF pw = 32 THEN ovrHmdDesc_32 ELSE ovrHmdDesc_64

ovrTrackerDesc ==
    << F("_align", "isize", 0),
       F("FrustumHFovInRadians", "f32", 1), F("FrustumVFovInRadians", "f32", 1),
       F("FrustumNearZInMeters", "f32", 1), F("FrustumFarZInMeters", "f32", 1) >>

ovrTrackerPose ==
    << F("_align", "u64", 0),
       F("TrackerFlags", "c_uint", 1),
       F("Pose", "ovrPosef", 1),
       F("LeveledPose", "ovrPosef", 1),
       F("_pad0", "u8", 4) >>

\* HandPoses declared with one element instead of two.
ovrTrackingState_OneHand ==
    << F("_align", "u64", 0),
       F("HeadPose", "ovrPoseStatef", 1),
       F("StatusFlags", "c_uint", 1),
       F("HandPoses", "ovrPoseStatef", 1),
       F("HandStatusFlags", "c_uint", 2),
       F("CalibratedOrigin", "ovrPosef", 1) >>

ovrTrackingState ==
    << F("_align", "u64", 0),
       F("HeadPose", "ovrPoseStatef", 1),
       F("StatusFlags", "c_uint", 1),
       F("HandPoses", "ovrPoseStatef", 2),
       F("HandStatusFlags", "c_uint", 2),
       F("CalibratedOrigin", "ovrPosef", 1) >>

\* The declaration with DistortedViewport left out.
ovrEyeRenderDesc_NoViewport ==
    << F("_align", "u32", 0),
       F("Eye", "ovrEyeType", 1),
       F("Fov", "ovrFovPort", 1),
       F("PixelsPerTanAngleAtCenter", "ovrVector2f", 1),
       F("HmdToEyeOffset", "ovrVector3f", 1) >>

ovrEyeRenderDesc ==
    << F("_align", "u32", 0),
       F("Eye", "ovrEyeType", 1),
       F("Fov", "ovrFovPort", 1),
       F("DistortedViewport", "ovrRecti", 1),
       F("PixelsPerTanAngleAtCenter", "ovrVector2f", 1),
       F("HmdToEyeOffset", "ovrVector3f", 1) >>

ovrTimewarpProjectionDesc ==
    << F("_align", "u32", 0),
       F("Projection22", "f32", 1), F("Projection23", "f32", 1),
       F("Projection32", "f32", 1) >>

\* #[cfg(target_pointer_width = "32")]
ovrInitParams_32 ==
    << F("_align", "u64", 0),
       F("Flags", "ovrInitFlags", 1),
       F("RequestedMinorVersion", "u32", 1),
       F("LogCallback", "ovrLogCallback", 1),
       F("UserData", "usize", 1),
       F("ConnectionTimeoutMS", "u32", 1) >>

\* The 64-bit declaration with UserData and LogCallback exchanged.
ovrInitParams_64_Reordered ==
    << F("_align", "u64", 0),
       F("Flags", "ovrInitFlags", 1),
       F("RequestedMinorVersion", "u32", 1),
       F("UserData", "usize", 1),
       F("LogCallback", "ovrLogCallback", 1),
       F("ConnectionTimeoutMS", "u32", 1),
       F("_pad0", "u8", 4) >>

\* #[cfg(target_pointer_width = "64")]
ovrInitParams_64 ==
    << F("_align", "u64", 0),
       F("Flags", "ovrInitFlags", 1),
       F("RequestedMinorVersion", "u32", 1),
       F("LogCallback", "ovrLogCallback", 1),
       F("UserData", "usize", 1),
       F("ConnectionTimeoutMS", "u32", 1),
       F("_pad0", "u8", 4) >>

\* One declaration for both widths, without the padding field.
ovrInitParams_NeverPadded(pw) == ovrInitParams_32

\* The declaration of ovrInitParams that cfg keeps for pointer width pw.
ovrInitParams(pw) == IF pw = 32 THEN ovrInitParams_32 ELSE ovrInitParams_64

ovrSessionStatus ==
    << F("IsVisible", "ovrBool", 1), F("HmdPresent", "ovrBool", 1),
       F("HmdMounted", "ovrBool", 1), F("DisplayLost", "ovrBool", 1),
       F("ShouldQuit", "ovrBool", 1), F("ShouldRecenter", "ovrBool", 1) >>

\* The declaration with a 4-byte _pad0.
ovrDetectResult_ShortPad ==
    << F("_align", "u64", 0),
       F("IsOculusServiceRunning", "ovrBool", 1),
       F("IsOculusHMDConnected", "ovrBool", 1),
       F("_pad0", "u8", 4) >>

ovrDetectResult ==
    << F("_align", "u64", 0),
       F("IsOculusServiceRunning", "ovrBool", 1),
       F("IsOculusHMDConnected", "ovrBool", 1),
       F("_pad0", "u8", 6) >>

ovrMaxProvidedFrameStats == 5

ovrColorf ==
    << F("_align", "u32", 0),
       F("r", "f32", 1),
       F("g", "f32", 1),
       F("b", "f32", 1),
       F("a", "f32", 1) >>

ovrGraphicsLuid ==
    << F("_align", "isize", 0),
       F("Reserved", "c_char", 8) >>

ovrViewScaleDesc ==
    << F("_align", "u32", 0),
       F("HmdToEyeOffset", "ovrVector3f", ovrEye_Count),
       F("HmdSpaceToWorldScaleInMeters", "f32", 1) >>

ovrTouchHapticsDesc ==
    << F("_align", "isize", 0),
       F("SampleRateHz", "c_int", 1),
       F("SampleSizeInBytes", "c_int", 1),
       F("QueueMinSizeToAvoidStarvation", "c_int", 1),
       F("SubmitMinSamples", "c_int", 1),
       F("SubmitMaxSamples", "c_int", 1),
       F("SubmitOptimalSamples", "c_int", 1) >>

ovrLayerHeader ==
    << F("_align", "isize", 0),
       F("Type", "ovrLayerType", 1),
       F("Flags", "c_unsigned", 1) >>

ovrLayerEyeFov ==
    << F("_align", "isize", 0),
       F("Header", "ovrLayerHeader", 1),
       F("ColorTexture", "ovrTextureSwapChain", ovrEye_Count),
       F("Viewport", "ovrRecti", ovrEye_Count),
       F("Fov", "ovrFovPort", ovrEye_Count),
       F("RenderPose", "ovrPosef", ovrEye_Count),
       F("SensorSampleTime", "f64", 1) >>

ovrLayerEyeMatrix ==
    << F("_align", "isize", 0),
       F("Header", "ovrLayerHeader", 1),
       F("ColorTexture", "ovrTextureSwapChain", ovrEye_Count),
       F("Viewport", "ovrRecti", ovrEye_Count),
       F("RenderPose", "ovrPosef", ovrEye_Count),
       F("Matrix", "ovrMatrix4f", ovrEye_Count),
       F("SensorSampleTime", "f64", 1) >>

ovrLayerQuad ==
    << F("_align", "isize", 0),
       F("Header", "ovrLayerHeader", 1),
       F("ColorTexture", "ovrTextureSwapChain", 1),
       F("Viewport", "ovrRecti", 1),
       F("QuadPoseCenter", "ovrPosef", 1),
       F("QuadSize", "ovrVector2f", 1) >>

ovrPerfStatsPerCompositorFrame ==
    << F("_align", "u32", 0),
       F("HmdVsyncIndex", "c_int", 1),
       F("AppFrameIndex", "c_int", 1),
       F("AppDroppedFrameCount", "c_int", 1),
       F("AppMotionToPhotonLatency", "f32", 1),
       F("AppQueueAheadTime", "f32", 1),
       F("AppCpuElapsedTime", "f32", 1),
       F("AppGpuElapsedTime", "f32", 1),
       F("CompositorFrameIndex", "c_int", 1),
       F("CompositorDroppedFrameCount", "c_int", 1),
       F("CompositorLatency", "f32", 1),
       F("CompositorCpuElapsedTime", "f32", 1),
       F("CompositorGpuElapsedTime", "f32", 1),
       F("CompositorCpuStartToGpuEndElapsedTime", "f32", 1),
       F("CompositorGpuEndToVsyncElapsedTime", "f32", 1),
       F("AswIsActive", "ovrBool", 1),
       F("AswActivatedToggleCount", "c_int", 1),
       F("AswPresentedFrameCount", "c_int", 1),
       F("AswFailedFrameCount", "c_int", 1) >>

ovrPerfStats ==
    << F("_align", "u32", 0),
       F("FrameStats", "ovrPerfStatsPerCompositorFrame", ovrMaxProvidedFrameStats),
       F("FrameStatsCount", "c_int", 1),
       F("AnyFrameStatsDropped", "ovrBool", 1),
       F("AdaptiveGpuPerformanceScale", "f32", 1),
       F("AswIsAvailable", "ovrBool", 1),
       F("VisibleProcessId", "ovrProcessId", 1) >>

\* The declarations under a #[cfg(target_pointer_width = "..")] attribute, in
\* source order.
CfgDecls ==
    << [name |-> "ovrHmdDesc",    cfg |-> 32, fields |-> ovrHmdDesc_32],
       [name |-> "ovrHmdDesc",    cfg |-> 64, fields |-> ovrHmdDesc_64],
       [name |-> "ovrInitParams", cfg |-> 32, fields |-> ovrInitParams_32],
       [name |-> "ovrInitParams", cfg |-> 64, fields |-> ovrInitParams_64] >>

\* The declarations of n that survive cfg evaluation for pointer width pw.
Compiled(n, pw) ==
    { i \in DOMAIN CfgDecls : CfgDecls[i].name = n /\ CfgDecls[i].cfg = pw }

\* The fields the crate documentation's ovrInitParams { .., .. uninitialized() }
\* example names.
DocInitFields ==
    { "Flags", "RequestedMinorVersion", "LogCallback", "UserData",
      "ConnectionTimeoutMS" }

\* The struct declarations compiled for pointer width pw.
StructDecl(pw) ==
    [ ovrVector2i               |-> ovrVector2i,
      ovrSizei                  |-> ovrSizei,
      ovrRecti                  |-> ovrRecti,
      ovrQuatf                  |-> ovrQuatf,
      ovrVector2f               |-> ovrVector2f,
      ovrVector3f               |-> ovrVector3f,
      ovrMatrix4f               |-> ovrMatrix4f,
      ovrPosef                  |-> ovrPosef,
      ovrPoseStatef             |-> ovrPoseStatef,
      ovrFovPort                |-> ovrFovPort,
      ovrHmdDesc                |-> ovrHmdDesc(pw),
      ovrTrackerDesc            |-> ovrTrackerDesc,
      ovrTrackerPose            |-> ovrTrackerPose,
      ovrTrackingState          |-> ovrTrackingState,
      ovrEyeRenderDesc          |-> ovrEyeRenderDesc,
      ovrTimewarpProjectionDesc |-> ovrTimewarpProjectionDesc,
      ovrInitParams             |-> ovrInitParams(pw),
      ovrSessionStatus          |-> ovrSessionStatus,
      ovrDetectResult           |-> ovrDetectResult,
      ovrColorf                 |-> ovrColorf,
      ovrGraphicsLuid           |-> ovrGraphicsLuid,
      ovrViewScaleDesc          |-> ovrViewScaleDesc,
      ovrTouchHapticsDesc       |-> ovrTouchHapticsDesc,
      ovrLayerHeader            |-> ovrLayerHeader,
      ovrLayerEyeFov            |-> ovrLayerEyeFov,
      ovrLayerEyeMatrix         |-> ovrLayerEyeMatrix,
      ovrLayerQuad              |-> ovrLayerQuad,
      ovrPerfStatsPerCompositorFrame |-> ovrPerfStatsPerCompositorFrame,
      ovrPerfStats              |-> ovrPerfStats ]

StructNames == DOMAIN StructDecl(32)
AliasNames  == DOMAIN TypeAlias

(***************************************************************************)
(* #[repr(C)] layout: fields are placed in declaration order, each at the  *)
(* next offset that is a multiple of its alignment; the struct's alignment *)
(* is the largest field alignment and its size is rounded up to it.        *)
(***************************************************************************)
Max(a, b) == IF a >= b THEN a ELSE b

RoundUp(n, a) == ((n + a - 1) \div a) * a

EmptyLayout == [offset |-> 0, align |-> 1, padding |-> 0, offsets |-> << >>]

RECURSIVE SizeOf(_, _), AlignOf(_, _), LayoutFrom(_, _, _, _)

\* Zero-sized fields skipped: they take no room and give no alignment.
PlaceField_SkipZeroSized(lay, f, pw) ==
    IF f.count = 0
    THEN [lay EXCEPT !.offsets = Append(lay.offsets, lay.offset)]
    ELSE LET a  == AlignOf(f.type, pw)
             at == RoundUp(lay.offset, a)
         IN  [ offset  |-> at + f.count * SizeOf(f.type, pw),
               align   |-> Max(lay.align, a),
               padding |-> lay.padding + (at - lay.offset),
               offsets |-> Append(lay.offsets, at) ]

\* Places field f after the fields of lay.
PlaceField(lay, f, pw) ==
    LET a  == AlignOf(f.type, pw)
        at == RoundUp(lay.offset, a)
    IN  [ offset  |-> at + f.count * SizeOf(f.type, pw),
          align   |-> Max(lay.align, a),
          padding |-> lay.padding + (at - lay.offset),
          offsets |-> Append(lay.offsets, at) ]

LayoutFrom(lay, fields, i, pw) ==
    IF i > Len(fields) THEN lay
    ELSE LayoutFrom(PlaceField(lay, fields[i], pw), fields, i + 1, pw)

LayoutOf(s, pw) == LayoutFrom(EmptyLayout, StructDecl(pw)[s], 1, pw)

\* std::mem::align_of
AlignOf(t, pw) ==
    IF t \in AliasNames THEN AlignOf(TypeAlias[t], pw)
    ELSE IF t \in StructNames THEN LayoutOf(t, pw).align
    ELSE PrimAlign(t, pw)

\* std::mem::size_of
SizeOf(t, pw) ==
    IF t \in AliasNames THEN SizeOf(TypeAlias[t], pw)
    ELSE IF t \in StructNames
         THEN LET lay == LayoutOf(t, pw) IN RoundUp(lay.offset, lay.align)
    ELSE PrimSize(t, pw)

\* Sum of the declared fields' sizes, explicit _pad fields included.
RECURSIVE FieldBytes(_, _, _)
FieldBytes(fields, i, pw) ==
    IF i > Len(fields) THEN 0
    ELSE fields[i].count * SizeOf(fields[i].type, pw) + FieldBytes(fields, i + 1, pw)

\* Index of the field called n in struct s (0 if there is none).
FieldIndex(s, n, pw) ==
    LET fs == StructDecl(pw)[s]
        is == { i \in 1..Len(fs) : fs[i].name = n }
    IN  IF is = {} THEN 0 ELSE CHOOSE i \in is : TRUE

(***************************************************************************)
(* The packing tests: the right-hand side of each size assertion.          *)
(***************************************************************************)
Expected(t, pw) ==
    CASE t = "ovrBool"          -> 1
      [] t = "ovrVector2i"      -> 4 * 2
      [] t = "ovrSizei"         -> 4 * 2
      [] t = "ovrRecti"         -> SizeOf("ovrVector2i", pw) + SizeOf("ovrSizei", pw)
      [] t = "ovrQuatf"         -> 4 * 4
      [] t = "ovrVector2f"      -> 4 * 2
      [] t = "ovrVector3f"      -> 4 * 3
      [] t = "ovrMatrix4f"      -> 4 * 16
      [] t = "ovrPosef"         -> 7 * 4
      [] t = "ovrPoseStatef"    -> 22 * 4
      [] t = "ovrFovPort"       -> 4 * 4
      [] t = "ovrHmdCaps"       -> 4
      [] t = "ovrTrackingCaps"  -> 4
      [] t = "ovrEyeType"       -> 4
      [] t = "ovrHmdType"       -> 4
      [] t = "ovrTrackerDesc"   -> 4 + 4 + 4 + 4
      [] t = "ovrTrackerPose"   ->
            4 + 4 + SizeOf("ovrPosef", pw) + SizeOf("ovrPosef", pw)
      [] t = "ovrTrackingState" ->
            SizeOf("ovrPoseStatef", pw) + 4 + 4 + (SizeOf("ovrPoseStatef", pw) * 2)
              + (SizeOf("c_uint", pw) * 2) + SizeOf("ovrPosef", pw) + 4
      [] t = "ovrStatusBits"    -> 4
      [] t = "ovrSessionStatus" -> 6
      [] t = "ovrEyeRenderDesc" ->
            SizeOf("ovrEyeType", pw) + SizeOf("ovrFovPort", pw) + SizeOf("ovrRecti", pw)
              + SizeOf("ovrVector2f", pw) + SizeOf("ovrVector3f", pw)
      [] t = "ovrTimewarpProjectionDesc" -> 4 * 3
      [] t = "ovrInitFlags"     -> 4
      [] t = "ovrLogLevel"      -> 4
      [] t = "ovrInitParams"    ->
            4 + 4 + SizeOf("ovrLogCallback", pw) + SizeOf("usize", pw) + 4 + 4
      [] t = "ovrHmdDesc"       ->
            IF pw = 32
            THEN SizeOf("ovrHmdType", pw) + 64 + 64 + 2 + 2 + 24 + 2 + 2 + 4 * 4
                   + SizeOf("ovrFovPort", pw) * 2 + SizeOf("ovrFovPort", pw) * 2
                   + SizeOf("ovrSizei", pw) + 4
            ELSE SizeOf("ovrHmdType", pw) + 4 + 64 + 64 + 2 + 2 + 24 + 2 + 2 + 4 * 4
                   + SizeOf("ovrFovPort", pw) * 2 + SizeOf("ovrFovPort", pw) * 2
                   + SizeOf("ovrSizei", pw) + 4 + 4
      [] t = "ovrDetectResult"  -> 8

\* The types the tests make an assertion about.
Asserted ==
    { "ovrBool", "ovrVector2i", "ovrSizei", "ovrRecti", "ovrQuatf", "ovrVector2f",
      "ovrVector3f", "ovrMatrix4f", "ovrPosef", "ovrPoseStatef", "ovrFovPort",
      "ovrHmdCaps", "ovrTrackingCaps", "ovrEyeType", "ovrHmdType",
      "ovrTrackerDesc", "ovrTrackerPose", "ovrTrackingState", "ovrStatusBits",
      "ovrSessionStatus", "ovrEyeRenderDesc", "ovrTimewarpProjectionDesc",
      "ovrInitFlags", "ovrLogLevel", "ovrInitParams", "ovrHmdDesc",
      "ovrDetectResult" }

(***************************************************************************)
(* Layout actions: size_of::<ty>() evaluated for the target, one field of  *)
(* a struct at a time.                                                     *)
(***************************************************************************)
InitLayout ==
    /\ pc = "idle"
    /\ ty = ""
    /\ idx = 1
    /\ offset = 0
    /\ align = 1
    /\ padding = 0
    /\ offsets = << >>
    /\ size = 0
    /\ verdict = "none"

\* size_of of a struct begins.
BeginStruct ==
    /\ pc \in {"idle", "done"}
    /\ verdict # "panic"
    /\ \E s \in StructNames : ty' = s
    /\ verdict' = "none"
    /\ pc' = "fields"
    /\ idx' = 1
    /\ offset' = EmptyLayout.offset
    /\ align' = EmptyLayout.align
    /\ padding' = EmptyLayout.padding
    /\ offsets' = EmptyLayout.offsets
    /\ size' = 0
    /\ UNCHANGED <<width, buildVars, cfgVars, keyVars, resultVars>>

\* The next declared field is placed.
PlaceNext ==
    /\ pc = "fields"
    /\ idx <= Len(StructDecl(width)[ty])
    /\ LET lay == PlaceField([offset |-> offset, align |-> align,
                              padding |-> padding, offsets |-> offsets],
                             StructDecl(width)[ty][idx], width)
       IN  /\ offset' = lay.offset
           /\ align' = lay.align
           /\ padding' = lay.padding
           /\ offsets' = lay.offsets
    /\ idx' = idx + 1
    /\ UNCHANGED <<width, buildVars, cfgVars, keyVars, resultVars, pc, ty, size, verdict>>

\* All fields placed: the size is the end offset rounded up to the alignment.
FinishStruct ==
    /\ pc = "fields"
    /\ idx > Len(StructDecl(width)[ty])
    /\ size' = RoundUp(offset, align)
    /\ padding' = padding + (RoundUp(offset, align) - offset)
    /\ pc' = "done"
    /\ UNCHANGED <<width, buildVars, cfgVars, keyVars, resultVars, ty, idx, offset, align, offsets, verdict>>

\* size_of of a type alias (ovrBool, the enum typedefs, ovrLogCallback).
MeasureAlias ==
    /\ pc \in {"idle", "done"}
    /\ verdict # "panic"
    /\ verdict' = "none"
    /\ \E t \in AliasNames :
          /\ ty' = t
          /\ size' = SizeOf(t, width)
          /\ align' = AlignOf(t, width)
          /\ offset' = SizeOf(t, width)
    /\ pc' = "done"
    /\ idx' = 1
    /\ padding' = 0
    /\ offsets' = << >>
    /\ UNCHANGED <<width, buildVars, cfgVars, keyVars, resultVars>>

\* assert!(size_of::<ty>() == <expected>, "ty size mismatch") in test() or
\* test_detect_result(): a failed assertion panics and ends the test.
AssertSize ==
    /\ pc = "done"
    /\ ty \in Asserted
    /\ verdict = "none"
    /\ verdict' = IF size = Expected(ty, width) THEN "pass" ELSE "panic"
    /\ UNCHANGED <<width, buildVars, cfgVars, keyVars, resultVars, pc, ty, idx, offset, align, padding, offsets, size>>

NextLayout == BeginStruct \/ PlaceNext \/ FinishStruct \/ MeasureAlias \/ AssertSize

(***************************************************************************)
(* build.rs.  Strings are sequences of symbols: a TARGET is its component  *)
(* words with the symbol "-" between them; a path is its components.      *)
(***************************************************************************)
Archs   == {"i686", "x86_64", "aarch64", "thumbv7a"}
Vendors == {"pc", "unknown", "uwp", "apple"}
Systems == {"windows", "win32", "linux", "darwin"}
Envs    == {"msvc", "gnu"}

\* The words allowed as component i of a target triple.
PartWords(i) ==
    IF i = 1 THEN Archs ELSE IF i = 2 THEN Vendors ELSE IF i = 3 THEN Systems ELSE Envs

RECURSIVE Join(_)
\* parts written with '-' between them.
Join(parts) ==
    IF Len(parts) = 0 THEN << >>
    ELSE IF Len(parts) = 1 THEN << parts[1] >>
    ELSE << parts[1], "-" >> \o Join(Tail(parts))

\* The TARGET strings cargo is made to pass here.
Targets ==
    UNION { { Join(ps) : ps \in { q \in [1..n -> Archs \cup Vendors \cup Systems \cup Envs] :
                                    \A i \in 1..n : q[i] \in PartWords(i) } }
            : n \in 1..MaxTargetParts }

ManifestDirs == { << "C:", "src", "ovr-sys" >>, << "home", "ovr-sys" >> }

RECURSIVE SplitFrom(_, _, _)
\* str::split('-'): cur is the component being read.
SplitFrom(str, i, cur) ==
    IF i > Len(str) THEN << cur >>
    ELSE IF str[i] = "-" THEN << cur >> \o SplitFrom(str, i + 1, << >>)
    ELSE SplitFrom(str, i + 1, Append(cur, str[i]))

\* triple.split('-').collect::<Vec<_>>(): each component is the sequence of
\* symbols read between two separators.
Split(str) == SplitFrom(str, 1, << >>)

\* &str equality of a split component with a literal word.
Is(component, word) == component = << word >>

\* Every system accepted.
IsWindows_NoCheck(s) == TRUE

\* sys == "win32" || sys == "windows"
IsWindows(s) == Is(s, "win32") \/ Is(s, "windows")

\* Every architecture but x86_64 sent to x86 (else instead of else if).
ArchDir_DefaultX86(a) ==
    IF Is(a, "x86_64") THEN << "x86_64" >> ELSE << "x86" >>

\* The two directories exchanged.
ArchDir_Swapped(a) ==
    IF Is(a, "i686") THEN << "x86_64" >>
    ELSE IF Is(a, "x86_64") THEN << "x86" >>
    ELSE << >>

\* if arch == "i686" { push("x86") } else if arch == "x86_64" { push("x86_64") }:
\* the components pushed for arch a.
ArchDir(a) ==
    IF Is(a, "i686") THEN << "x86" >>
    ELSE IF Is(a, "x86_64") THEN << "x86_64" >>
    ELSE << >>

InitBuild ==
    /\ bpc = "idle"
    /\ target = << >>
    /\ manifest = << >>
    /\ arch = << >>
    /\ sys = << >>
    /\ path = << >>
    /\ lib_name = ""
    /\ stdout = << >>
    /\ panic = ""

\* cargo runs the build script with TARGET and CARGO_MANIFEST_DIR set.
RunBuildScript ==
    /\ bpc \in {"idle", "done", "panicked"}
    /\ \E t \in Targets : target' = t
    /\ \E d \in ManifestDirs : manifest' = d
    /\ bpc' = "split"
    /\ arch' = << >>
    /\ sys' = << >>
    /\ path' = << >>
    /\ lib_name' = ""
    /\ stdout' = << >>
    /\ panic' = ""
    /\ UNCHANGED <<width, resultVars, layoutVars, cfgVars, keyVars>>

\* let triple = triple.split('-').collect(); arch = triple[0]; sys = triple[2];
\* indexing past the end of the Vec panics.
SplitTarget ==
    /\ bpc = "split"
    /\ LET triple == Split(target)
       IN  IF Len(triple) >= 3
           THEN /\ arch' = triple[1]
                /\ sys' = triple[3]
                /\ bpc' = "path"
                /\ panic' = panic
           ELSE /\ arch' = triple[1]
                /\ sys' = sys
                /\ bpc' = "panicked"
                /\ panic' = "index out of bounds"
    /\ UNCHANGED <<width, resultVars, layoutVars, cfgVars, keyVars, target, manifest, path, lib_name, stdout>>

\* path.push(CARGO_MANIFEST_DIR); path.push("lib"); then the if / else on sys.
BuildPath ==
    /\ bpc = "path"
    /\ IF IsWindows(sys)
       THEN /\ path' = manifest \o << "lib", "windows" >> \o ArchDir(arch)
            /\ lib_name' = "LibOVR"
            /\ bpc' = "search"
            /\ panic' = panic
       ELSE /\ path' = manifest \o << "lib" >>
            /\ lib_name' = lib_name
            /\ bpc' = "panicked"
            /\ panic' = "Non-windows platforms not yet supported by Oculus VR."
    /\ UNCHANGED <<width, resultVars, layoutVars, cfgVars, keyVars, target, manifest, arch, sys, stdout>>

\* println!("cargo:rustc-link-search=native={}", path.display());
PrintLinkSearch ==
    /\ bpc = "search"
    /\ stdout' = Append(stdout, [key |-> "cargo:rustc-link-search", kind |-> "native",
                                 value |-> path])
    /\ bpc' = "lib"
    /\ UNCHANGED <<width, resultVars, layoutVars, cfgVars, keyVars, target, manifest, arch, sys, path,
                   lib_name, panic>>

\* println!("cargo:rustc-link-lib=static={}", lib_name);
PrintLinkLib ==
    /\ bpc = "lib"
    /\ stdout' = Append(stdout, [key |-> "cargo:rustc-link-lib", kind |-> "static",
                                 value |-> << lib_name >>])
    /\ bpc' = "done"
    /\ UNCHANGED <<width, resultVars, layoutVars, cfgVars, keyVars, target, manifest, arch, sys, path,
                   lib_name, panic>>

NextBuild ==
    RunBuildScript \/ SplitTarget \/ BuildPath \/ PrintLinkSearch \/ PrintLinkLib

(***************************************************************************)
(* Conditional compilation of the optional items of lib.rs.                *)
(***************************************************************************)
Features == {"audio", "directx", "opengl", "vulkan"}

\* The items of lib.rs under a #[cfg(..)] of features, in source order:
\* needs is the set of features the cfg requires, windows whether it also
\* requires cfg(windows).
GatedItems ==
    << [kind |-> "extern crate", name |-> "winapi",  needs |-> {"directx"}, windows |-> TRUE],
       [kind |-> "extern crate", name |-> "vks",     needs |-> {"vulkan"},  windows |-> FALSE],
       [kind |-> "mod",          name |-> "opengl",  needs |-> {"opengl"},  windows |-> FALSE],
       [kind |-> "mod",          name |-> "directx", needs |-> {"directx"}, windows |-> TRUE],
       [kind |-> "mod",          name |-> "vulkan",  needs |-> {"vulkan"},  windows |-> FALSE],
       [kind |-> "mod",          name |-> "audio",   needs |-> {"audio"},   windows |-> TRUE] >>

\* cfg(any(..)) in place of cfg(all(..)).
CfgHolds_Any(it, fs, win) ==
    \/ it.needs \subseteq fs
    \/ (it.windows /\ win)

\* #[cfg(feature = "f")] and #[cfg(all(feature = "f", windows))]
CfgHolds(it, fs, win) ==
    /\ it.needs \subseteq fs
    /\ it.windows => win

InitCfg ==
    /\ features = {}
    /\ cfgWindows = FALSE
    /\ item = 0
    /\ crates = {}
    /\ modules = {}

\* rustc is started on lib.rs with a set of features for some target.
Rustc ==
    /\ item \in {0, Len(GatedItems) + 1}
    /\ \E fs \in SUBSET Features : features' = fs
    /\ \E win \in BOOLEAN : cfgWindows' = win
    /\ item' = 1
    /\ crates' = {}
    /\ modules' = {}
    /\ UNCHANGED <<width, resultVars, layoutVars, buildVars, keyVars>>

\* The next gated item is kept if its cfg holds and dropped otherwise.
ExpandItem ==
    /\ item \in 1..Len(GatedItems)
    /\ LET it   == GatedItems[item]
           kept == CfgHolds(it, features, cfgWindows)
       IN  /\ crates' = IF kept /\ it.kind = "extern crate"
                        THEN crates \cup {it.name} ELSE crates
           /\ modules' = IF kept /\ it.kind = "mod"
                         THEN modules \cup {it.name} ELSE modules
    /\ item' = item + 1
    /\ UNCHANGED <<width, resultVars, layoutVars, buildVars, keyVars, features, cfgWindows>>

NextCfg == Rustc \/ ExpandItem

(***************************************************************************)
(* Property keys: byte strings handed to LibOVR as C strings.  A byte      *)
(* string is the sequence of its byte values, 0 being the NUL byte.        *)
(***************************************************************************)
\* b"User\0"
OVR_KEY_USER ==
    << 85, 115, 101, 114, 0 >>

\* b"Name\0"
OVR_KEY_NAME ==
    << 78, 97, 109, 101, 0 >>

\* b"Gender\0"
OVR_KEY_GENDER ==
    << 71, 101, 110, 100, 101, 114, 0 >>

\* b"Unknown\0"
OVR_DEFAULT_GENDER ==
    << 85, 110, 107, 110, 111, 119, 110, 0 >>

\* b"PlayerHeight\0"
OVR_KEY_PLAYER_HEIGHT ==
    << 80, 108, 97, 121, 101, 114, 72, 101, 105, 103, 104, 116, 0 >>

\* b"EyeHeight\0"
OVR_KEY_EYE_HEIGHT ==
    << 69, 121, 101, 72, 101, 105, 103, 104, 116, 0 >>

\* b"NeckEyeDistance\0"
OVR_KEY_NECK_TO_EYE_DISTANCE ==
    << 78, 101, 99, 107, 69, 121, 101, 68, 105, 115, 116, 97, 110, 99, 101, 0 >>

\* b"EyeToNoseDist\0"
OVR_KEY_EYE_TO_NOSE_DISTANCE ==
    << 69, 121, 101, 84, 111, 78, 111, 115, 101, 68, 105, 115, 116, 0 >>

\* b"PerfHudMode" without the trailing \0.
OVR_PERF_HUD_MODE_Unterminated ==
    << 80, 101, 114, 102, 72, 117, 100, 77, 111, 100, 101 >>

\* b"PerfHudMode\0"
OVR_PERF_HUD_MODE ==
    << 80, 101, 114, 102, 72, 117, 100, 77, 111, 100, 101, 0 >>

\* b"LayerHudMode\0"
OVR_LAYER_HUD_MODE ==
    << 76, 97, 121, 101, 114, 72, 117, 100, 77, 111, 100, 101, 0 >>

\* b"LayerHudCurrentLayer\0"
OVR_LAYER_HUD_CURRENT_LAYER ==
    << 76, 97, 121, 101, 114, 72, 117, 100, 67, 117, 114, 114, 101, 110, 116, 76, 97, 121, 101, 114, 0 >>

\* b"LayerHudShowAll\0"
OVR_LAYER_HUD_SHOW_ALL_LAYERS ==
    << 76, 97, 121, 101, 114, 72, 117, 100, 83, 104, 111, 119, 65, 108, 108, 0 >>

\* b"DebugHudStereoMode\0"
OVR_DEBUG_HUD_STEREO_MODE ==
    << 68, 101, 98, 117, 103, 72, 117, 100, 83, 116, 101, 114, 101, 111, 77, 111, 100, 101, 0 >>

\* b"DebugHudStereoGuideInfoEnable\0"
OVR_DEBUG_HUD_STEREO_GUIDE_INFO_ENABLE ==
    << 68, 101, 98, 117, 103, 72, 117, 100, 83, 116, 101, 114, 101, 111, 71, 117, 105, 100, 101, 73, 110, 102, 111, 69, 110, 97, 98, 108, 101, 0 >>

\* b"DebugHudStereoGuideSize2f\0"
OVR_DEBUG_HUD_STEREO_GUIDE_SIZE ==
    << 68, 101, 98, 117, 103, 72, 117, 100, 83, 116, 101, 114, 101, 111, 71, 117, 105, 100, 101, 83, 105, 122, 101, 50, 102, 0 >>

\* b"DebugHudStereoGuidePosition3f\0"
OVR_DEBUG_HUD_STEREO_GUIDE_POSITION ==
    << 68, 101, 98, 117, 103, 72, 117, 100, 83, 116, 101, 114, 101, 111, 71, 117, 105, 100, 101, 80, 111, 115, 105, 116, 105, 111, 110, 51, 102, 0 >>

\* b"DebugHudStereoGuideYawPitchRoll3f\0"
OVR_DEBUG_HUD_STEREO_GUIDE_YAWPITCHROLL ==
    << 68, 101, 98, 117, 103, 72, 117, 100, 83, 116, 101, 114, 101, 111, 71, 117, 105, 100, 101, 89, 97, 119, 80, 105, 116, 99, 104, 82, 111, 108, 108, 51, 102, 0 >>

\* b"DebugHudStereoGuideColor4f\0"
OVR_DEBUG_HUD_STEREO_GUIDE_COLOR ==
    << 68, 101, 98, 117, 103, 72, 117, 100, 83, 116, 101, 114, 101, 111, 71, 117, 105, 100, 101, 67, 111, 108, 111, 114, 52, 102, 0 >>

\* The property-key constants by name.
PropertyKeys ==
    [ OVR_KEY_USER |-> OVR_KEY_USER,
      OVR_KEY_NAME |-> OVR_KEY_NAME,
      OVR_KEY_GENDER |-> OVR_KEY_GENDER,
      OVR_DEFAULT_GENDER |-> OVR_DEFAULT_GENDER,
      OVR_KEY_PLAYER_HEIGHT |-> OVR_KEY_PLAYER_HEIGHT,
      OVR_KEY_EYE_HEIGHT |-> OVR_KEY_EYE_HEIGHT,
      OVR_KEY_NECK_TO_EYE_DISTANCE |-> OVR_KEY_NECK_TO_EYE_DISTANCE,
      OVR_KEY_EYE_TO_NOSE_DISTANCE |-> OVR_KEY_EYE_TO_NOSE_DISTANCE,
      OVR_PERF_HUD_MODE |-> OVR_PERF_HUD_MODE,
      OVR_LAYER_HUD_MODE |-> OVR_LAYER_HUD_MODE,
      OVR_LAYER_HUD_CURRENT_LAYER |-> OVR_LAYER_HUD_CURRENT_LAYER,
      OVR_LAYER_HUD_SHOW_ALL_LAYERS |-> OVR_LAYER_HUD_SHOW_ALL_LAYERS,
      OVR_DEBUG_HUD_STEREO_MODE |-> OVR_DEBUG_HUD_STEREO_MODE,
      OVR_DEBUG_HUD_STEREO_GUIDE_INFO_ENABLE |-> OVR_DEBUG_HUD_STEREO_GUIDE_INFO_ENABLE,
      OVR_DEBUG_HUD_STEREO_GUIDE_SIZE |-> OVR_DEBUG_HUD_STEREO_GUIDE_SIZE,
      OVR_DEBUG_HUD_STEREO_GUIDE_POSITION |-> OVR_DEBUG_HUD_STEREO_GUIDE_POSITION,
      OVR_DEBUG_HUD_STEREO_GUIDE_YAWPITCHROLL |-> OVR_DEBUG_HUD_STEREO_GUIDE_YAWPITCHROLL,
      OVR_DEBUG_HUD_STEREO_GUIDE_COLOR |-> OVR_DEBUG_HUD_STEREO_GUIDE_COLOR ]

KeyNames == DOMAIN PropertyKeys

\* CStr::to_bytes: the contents of a CStr built by
\* CStr::from_bytes_with_nul_unchecked, the slice without its last byte.
to_bytes(bytes) == SubSeq(bytes, 1, Len(bytes) - 1)

InitKeys ==
    /\ kpc = "idle"
    /\ key = ""
    /\ pos = 1
    /\ text = << >>

\* ovr_SetInt(session, CStr::from_bytes_with_nul_unchecked(KEY).as_ptr(), ..):
\* the pointer to the first byte of the constant crosses to the C side.
PassKey ==
    /\ kpc # "scan"
    /\ \E k \in KeyNames : key' = k
    /\ kpc' = "scan"
    /\ pos' = 1
    /\ text' = << >>
    /\ UNCHANGED <<width, resultVars, layoutVars, buildVars, cfgVars>>

\* The C side reads the name one byte at a time up to the first NUL.  A read
\* past the last byte of the constant is undefined behaviour: it may find a
\* NUL there or go on through foreign memory.
ReadByte ==
    /\ kpc = "scan"
    /\ LET bytes == PropertyKeys[key]
       IN  IF pos > Len(bytes)
           THEN /\ kpc' \in {"done", "overrun"}
                /\ UNCHANGED <<pos, text>>
           ELSE IF bytes[pos] = 0
           THEN /\ kpc' = "done"
                /\ UNCHANGED <<pos, text>>
           ELSE /\ text' = Append(text, bytes[pos])
                /\ pos' = pos + 1
                /\ UNCHANGED kpc
    /\ UNCHANGED <<width, resultVars, layoutVars, buildVars, cfgVars, key>>

NextKeys == PassKey \/ ReadByte

(***************************************************************************)
(* Specifications.                                                         *)
(***************************************************************************)
Init ==
    /\ width \in PointerWidths
    /\ InitResult /\ InitLayout /\ InitBuild /\ InitCfg /\ InitKeys

Next == NextResult \/ NextLayout \/ NextBuild \/ NextCfg \/ NextKeys

Spec == Init /\ [][Next]_vars

\* Result classification alone.
SpecResult == Init /\ [][NextResult]_vars

\* Struct layout alone.
SpecLayout == Init /\ [][NextLayout]_vars

\* The build script alone.
SpecBuild == Init /\ [][NextBuild]_vars

\* Conditional compilation alone.
SpecCfg == Init /\ [][NextCfg]_vars

\* Property keys alone.
SpecKeys == Init /\ [][NextKeys]_vars

TypeOK ==
    /\ width \in PointerWidths
    /\ r \in ovrResult
    /\ called \subseteq {"OVR_SUCCESS", "OVR_UNQUALIFIED_SUCCESS", "OVR_FAILURE"}
    /\ success \in BOOLEAN
    /\ unqualified \in BOOLEAN
    /\ failure \in BOOLEAN
    /\ pc \in {"idle", "fields", "done"}
    /\ ty \in StructNames \cup AliasNames \cup {""}
    /\ idx \in Nat /\ offset \in Nat /\ align \in Nat /\ padding \in Nat
    /\ size \in Nat
    /\ verdict \in {"none", "pass", "panic"}
    /\ bpc \in {"idle", "split", "path", "search", "lib", "done", "panicked"}
    /\ target \in Targets \cup {<< >>}
    /\ manifest \in ManifestDirs \cup {<< >>}
    /\ lib_name \in {"", "LibOVR"}
    /\ Len(stdout) <= 2
    /\ features \subseteq Features
    /\ cfgWindows \in BOOLEAN
    /\ item \in 0..(Len(GatedItems) + 1)
    /\ crates \subseteq {"winapi", "vks"}
    /\ modules \subseteq Features
    /\ kpc \in {"idle", "scan", "done", "overrun"}
    /\ key \in KeyNames \cup {""}
    /\ pos \in Nat \ {0}
    /\ text \in Seq(0..255)

(***************************************************************************)
(* Properties of the result classification (checked under SpecResult).     *)
(***************************************************************************)
Called(f) == f \in called

\* C1: for every 32-bit ovrResult r, OVR_SUCCESS(r) returns true exactly when
\* r >= ovrSuccess (0) and false exactly when r is negative.
Thm_C1 ==
    Called("OVR_SUCCESS") =>
        /\ r \in ovrResult
        /\ success = TRUE  <=> r \in ovrSuccess .. I32Max
        /\ success = FALSE <=> r \in I32Min .. -1

\* OVR_SUCCESS has answered false for the largest negative result.
Wit_C1 == Called("OVR_SUCCESS") /\ r = -1 /\ success = FALSE

\* C2: OVR_FAILURE(r) is the negation of OVR_SUCCESS(r): of the two answers
\* for the same r exactly one is true.
Thm_C2 ==
    (Called("OVR_SUCCESS") /\ Called("OVR_FAILURE")) =>
        /\ failure = ~success
        /\ success \/ failure
        /\ ~(success /\ failure)

\* Both helpers have been applied to a qualified success code.
Wit_C2 ==
    /\ Called("OVR_SUCCESS") /\ Called("OVR_FAILURE")
    /\ r = ovrSuccessTypes.ovrSuccess_NotVisible
    /\ success /\ ~failure

\* C3: every ovrError_* constant is strictly negative, so OVR_FAILURE is true
\* and OVR_SUCCESS false for it; ovrSuccess and every ovrSuccess_* constant
\* is >= 0, so OVR_SUCCESS is true for it.
Thm_C3 ==
    /\ \A n \in DOMAIN ovrErrorType : ovrErrorType[n] < 0
    /\ \A c \in SuccessCodes : c >= 0
    /\ (r \in ErrorCodes /\ Called("OVR_SUCCESS")) => ~success
    /\ (r \in ErrorCodes /\ Called("OVR_FAILURE")) => failure
    /\ (r \in SuccessCodes /\ Called("OVR_SUCCESS")) => success
    /\ (r \in SuccessCodes /\ Called("OVR_FAILURE")) => ~failure

\* Both helpers have been applied to ovrError_OldVersion.
Wit_C3 ==
    /\ r = ovrErrorType.ovrError_OldVersion
    /\ Called("OVR_SUCCESS") /\ Called("OVR_FAILURE")
    /\ failure /\ ~success

\* C4: OVR_UNQUALIFIED_SUCCESS(r) is true exactly when r = ovrSuccess (0); it
\* implies OVR_SUCCESS(r); the qualified success codes 1000, 1001 and 1002
\* satisfy OVR_SUCCESS and not OVR_UNQUALIFIED_SUCCESS.
Thm_C4 ==
    /\ Values(ovrSuccessTypes) = {1000, 1001, 1002}
    /\ Called("OVR_UNQUALIFIED_SUCCESS") =>
          /\ unqualified <=> r = 0
          /\ (unqualified /\ Called("OVR_SUCCESS")) => success
          /\ r \in {1000, 1001, 1002} => ~unqualified
    /\ (Called("OVR_SUCCESS") /\ r \in {1000, 1001, 1002}) => success

\* The converse fails: a qualified success code is a success that is not an
\* unqualified one.
Wit_C4 ==
    /\ Called("OVR_UNQUALIFIED_SUCCESS") /\ Called("OVR_SUCCESS")
    /\ r = 1002
    /\ success /\ ~unqualified

(***************************************************************************)
(* Properties of the struct layout (checked under SpecLayout).             *)
(***************************************************************************)
Done(t) == pc = "done" /\ ty = t

\* Offset at which the field called n of the struct under layout was placed.
OffsetOfField(n) == offsets[FieldIndex(ty, n, width)]

\* The sizes C5 lists.
PackedSizes ==
    [ ovrBool |-> 1, ovrVector2i |-> 8, ovrSizei |-> 8, ovrRecti |-> 16,
      ovrQuatf |-> 16, ovrVector2f |-> 8, ovrVector3f |-> 12, ovrMatrix4f |-> 64,
      ovrPosef |-> 28, ovrFovPort |-> 16, ovrTrackerDesc |-> 16,
      ovrSessionStatus |-> 6, ovrTimewarpProjectionDesc |-> 12,
      ovrEyeRenderDesc |-> 56,
      ovrHmdCaps |-> 4, ovrTrackingCaps |-> 4, ovrEyeType |-> 4, ovrHmdType |-> 4,
      ovrStatusBits |-> 4, ovrInitFlags |-> 4, ovrLogLevel |-> 4 ]

\* C5: under repr(C) the unpadded value structs and the enum typedefs have
\* exactly the sizes the packing test asserts, each struct's size being the
\* sum of its field sizes with no compiler-inserted padding; ovrRecti is
\* ovrVector2i + ovrSizei and ovrEyeRenderDesc is ovrEyeType + ovrFovPort +
\* ovrRecti + ovrVector2f + ovrVector3f.
Thm_C5 ==
    (pc = "done" /\ ty \in DOMAIN PackedSizes) =>
        /\ size = PackedSizes[ty]
        /\ padding = 0
        /\ ty \in StructNames => size = FieldBytes(StructDecl(width)[ty], 1, width)
        /\ ty = "ovrRecti" =>
              size = SizeOf("ovrVector2i", width) + SizeOf("ovrSizei", width)
        /\ ty = "ovrEyeRenderDesc" =>
              size = SizeOf("ovrEyeType", width) + SizeOf("ovrFovPort", width)
                       + SizeOf("ovrRecti", width) + SizeOf("ovrVector2f", width)
                       + SizeOf("ovrVector3f", width)
        /\ verdict # "panic"

\* ovrEyeRenderDesc has been laid out and its assertion has passed.
Wit_C5 == Done("ovrEyeRenderDesc") /\ size = 56 /\ verdict = "pass"

\* C6: ovrPoseStatef has 8-byte alignment and size exactly 88 = 22 * 4; the
\* explicit _pad0 places TimeInSeconds at offset 80, a multiple of 8, and
\* no implicit padding is inserted before or after it.
Thm_C6 ==
    /\ (pc = "fields" /\ ty = "ovrPoseStatef") => padding = 0
    /\ Done("ovrPoseStatef") =>
          /\ size = 88
          /\ size = 22 * 4
          /\ align = 8
          /\ OffsetOfField("_pad0") = 76
          /\ OffsetOfField("TimeInSeconds") = 80
          /\ OffsetOfField("TimeInSeconds") % 8 = 0
          /\ padding = 0
          /\ verdict # "panic"

\* ovrPoseStatef has been laid out and its assertion has passed.
Wit_C6 == Done("ovrPoseStatef") /\ size = 88 /\ verdict = "pass"

\* C7: with 8-byte struct alignment size_of(ovrTrackerPose) = 4 + 4 +
\* 2 * size_of(ovrPosef) = 64 and size_of(ovrTrackingState) =
\* size_of(ovrPoseStatef) + 4 + 4 + 2 * size_of(ovrPoseStatef) +
\* 2 * size_of(c_uint) + size_of(ovrPosef) + 4 = 312: the declared fields
\* plus 4 bytes of implicit padding after StatusFlags and 4 after
\* CalibratedOrigin.
Thm_C7 ==
    /\ Done("ovrTrackerPose") =>
          /\ align = 8
          /\ size = 4 + 4 + 2 * SizeOf("ovrPosef", width)
          /\ size = 64
          /\ verdict # "panic"
    /\ Done("ovrTrackingState") =>
          /\ align = 8
          /\ size = SizeOf("ovrPoseStatef", width) + 4 + 4
                      + 2 * SizeOf("ovrPoseStatef", width)
                      + 2 * SizeOf("c_uint", width) + SizeOf("ovrPosef", width) + 4
          /\ size = 312
          /\ size = FieldBytes(ovrTrackingState, 1, width) + padding
          /\ padding = 4 + 4
          /\ OffsetOfField("HandPoses") - (OffsetOfField("StatusFlags") + 4) = 4
          /\ OffsetOfField("HandStatusFlags")
               = OffsetOfField("HandPoses") + 2 * SizeOf("ovrPoseStatef", width)
          /\ OffsetOfField("CalibratedOrigin") = OffsetOfField("HandStatusFlags") + 8
          /\ size - (OffsetOfField("CalibratedOrigin") + SizeOf("ovrPosef", width)) = 4
          /\ verdict # "panic"

\* ovrTrackingState has been laid out and its assertion has passed.
Wit_C7 == Done("ovrTrackingState") /\ size = 312 /\ padding = 8 /\ verdict = "pass"

\* C8: for both pointer widths size_of(ovrInitParams) = 4 + 4 +
\* size_of(ovrLogCallback) + size_of(usize) + 4 + 4: 24 bytes on 32-bit and
\* 32 on 64-bit.  On 64-bit the final 4 bytes are the explicit _pad0; on
\* 32-bit there is no _pad0 and they are tail padding forced by the 8-byte
\* alignment of _align: [u64; 0].
Thm_C8 ==
    Done("ovrInitParams") =>
        /\ size = 4 + 4 + SizeOf("ovrLogCallback", width) + SizeOf("usize", width) + 4 + 4
        /\ align = 8
        /\ width = 32 =>
              /\ size = 24
              /\ FieldIndex("ovrInitParams", "_pad0", width) = 0
              /\ offset = 20
              /\ padding = 4
              /\ size - offset = 4
        /\ width = 64 =>
              /\ size = 32
              /\ FieldIndex("ovrInitParams", "_pad0", width) = Len(ovrInitParams(width))
              /\ OffsetOfField("_pad0") = 28
              /\ padding = 0
        /\ verdict # "panic"

\* ovrInitParams has been laid out for a 32-bit target and passed.
Wit_C8 == Done("ovrInitParams") /\ width = 32 /\ size = 24 /\ verdict = "pass"

\* C9: size_of(ovrHmdDesc) is the sum of its field sizes with no
\* compiler-inserted padding on both pointer widths: 256 bytes on 32-bit
\* (no _pad0/_pad1) and 264 on 64-bit (two explicit 4-byte pads), as the
\* two branches of the packing test assert.
Thm_C9 ==
    Done("ovrHmdDesc") =>
        /\ size = FieldBytes(StructDecl(width)[ty], 1, width)
        /\ padding = 0
        /\ width = 32 =>
              /\ size = 256
              /\ FieldIndex("ovrHmdDesc", "_pad0", width) = 0
              /\ FieldIndex("ovrHmdDesc", "_pad1", width) = 0
        /\ width = 64 =>
              /\ size = 264
              /\ FieldIndex("ovrHmdDesc", "_pad0", width) # 0
              /\ FieldIndex("ovrHmdDesc", "_pad1", width) # 0
        /\ verdict # "panic"

\* ovrHmdDesc has been laid out for a 64-bit target and passed.
Wit_C9 == Done("ovrHmdDesc") /\ width = 64 /\ size = 264 /\ verdict = "pass"

\* C10: size_of(ovrDetectResult) is exactly 8: two 1-byte ovrBool fields and
\* the explicit 6-byte _pad0; the 8-byte alignment from _align: [u64; 0]
\* adds no further padding.
Thm_C10 ==
    Done("ovrDetectResult") =>
        /\ size = 8
        /\ align = 8
        /\ offsets = << 0, 0, 1, 2 >>
        /\ offset = 1 + 1 + 6
        /\ padding = 0
        /\ verdict # "panic"

\* ovrDetectResult has been laid out and test_detect_result has passed.
Wit_C10 == Done("ovrDetectResult") /\ size = 8 /\ verdict = "pass"

\* C11: alignment requirements are implemented with dummy zero-sized array
\* fields: in every struct that declares _align: [T; 0], that field takes 0
\* bytes at offset 0, the struct's alignment is at least align_of(T) and its
\* size a multiple of align_of(T); in a struct with _align: [u64; 0] every
\* f64 field, and every f64 inside an ovrPoseStatef member, lies at an
\* offset that is a multiple of 8.
Thm_C11 ==
    (/\ pc \in {"fields", "done"}
     /\ ty \in StructNames
     /\ StructDecl(width)[ty][1].name = "_align") =>
        LET fs == StructDecl(width)[ty]
            a  == AlignOf(fs[1].type, width)
        IN  /\ fs[1].count = 0
            /\ fs[1].count * SizeOf(fs[1].type, width) = 0
            /\ idx > 1 => (offsets[1] = 0 /\ align >= a /\ align % a = 0)
            /\ idx = 2 => offset = 0
            /\ pc = "done" => (size % a = 0 /\ size >= offset)
            /\ fs[1].type = "u64" =>
                  /\ a = 8
                  /\ \A i \in 1..Len(offsets) :
                        /\ fs[i].type = "f64" => offsets[i] % 8 = 0
                        /\ fs[i].type = "ovrPoseStatef" =>
                              \A k \in 0..(fs[i].count - 1) :
                                 LET at == offsets[i] + k * SizeOf("ovrPoseStatef", width)
                                 IN  /\ at % 8 = 0
                                     /\ (at + LayoutOf("ovrPoseStatef", width).offsets[
                                            FieldIndex("ovrPoseStatef", "TimeInSeconds", width)])
                                          % 8 = 0

\* ovrTrackingState has been laid out: 8-byte aligned through its _align
\* field, with both HandPoses elements on multiples of 8.
Wit_C11 ==
    /\ Done("ovrTrackingState")
    /\ align = 8
    /\ OffsetOfField("HandPoses") = 96
    /\ size % 8 = 0

FieldNames(fs) == { fs[i].name : i \in DOMAIN fs }

IsPad(f) == f.name \in {"_pad0", "_pad1"}

NotPad(f) == ~IsPad(f)

\* C12: for each pointer width in {32, 64} exactly one definition of
\* ovrHmdDesc and exactly one of ovrInitParams is compiled; the 64-bit
\* definition has the 32-bit one's fields in the same order plus only the
\* padding fields (_pad0, _pad1 in ovrHmdDesc, _pad0 in ovrInitParams), so
\* an initialiser naming the non-padding fields and `..` is valid on both.
Thm_C12 ==
    /\ \A pw \in PointerWidths : \A n \in {"ovrHmdDesc", "ovrInitParams"} :
          /\ Cardinality(Compiled(n, pw)) = 1
          /\ \A i \in Compiled(n, pw) : CfgDecls[i].fields = StructDecl(pw)[n]
    /\ (pc # "idle" /\ ty \in {"ovrHmdDesc", "ovrInitParams"}) =>
          \E i \in Compiled(ty, width) :
             /\ Len(offsets) <= Len(CfgDecls[i].fields)
             /\ pc = "done" => Len(offsets) = Len(CfgDecls[i].fields)
    /\ SelectSeq(StructDecl(64)["ovrHmdDesc"], NotPad) = StructDecl(32)["ovrHmdDesc"]
    /\ SelectSeq(StructDecl(64)["ovrInitParams"], NotPad) = StructDecl(32)["ovrInitParams"]
    /\ FieldNames(SelectSeq(StructDecl(64)["ovrHmdDesc"], IsPad)) = {"_pad0", "_pad1"}
    /\ FieldNames(SelectSeq(StructDecl(64)["ovrInitParams"], IsPad)) = {"_pad0"}
    /\ Len(StructDecl(64)["ovrHmdDesc"]) = Len(StructDecl(32)["ovrHmdDesc"]) + 2
    /\ Len(StructDecl(64)["ovrInitParams"]) = Len(StructDecl(32)["ovrInitParams"]) + 1
    /\ \A pw \in PointerWidths :
          /\ DocInitFields \subseteq FieldNames(StructDecl(pw)["ovrInitParams"])
          /\ FieldNames(StructDecl(pw)["ovrInitParams"]) \ DocInitFields
               \subseteq {"_align", "_pad0"}

\* The 64-bit ovrInitParams, one field longer than the 32-bit one, has been
\* laid out.
Wit_C12 ==
    /\ Done("ovrInitParams")
    /\ width = 64
    /\ Len(offsets) = Len(ovrInitParams_32) + 1

(***************************************************************************)
(* Properties of the build script (checked under SpecBuild).               *)
(***************************************************************************)
\* The k-th '-'-separated word of TARGET, read off the string itself.
TargetWord(k) == IF Len(target) >= 2 * k - 1 THEN target[2 * k - 1] ELSE ""

WindowsTarget == TargetWord(3) \in {"windows", "win32"}

LinkSearch(dir) ==
    [key |-> "cargo:rustc-link-search", kind |-> "native", value |-> dir]

LinkLib(name) ==
    [key |-> "cargo:rustc-link-lib", kind |-> "static", value |-> << name >>]

\* C13: for a TARGET whose third component is "windows" or "win32" the
\* script emits cargo:rustc-link-search=native=<CARGO_MANIFEST_DIR>/lib/windows/x86
\* when the first component is i686 and .../lib/windows/x86_64 when it is
\* x86_64, followed by cargo:rustc-link-lib=static=LibOVR.
Thm_C13 ==
    (bpc # "idle" /\ WindowsTarget /\ TargetWord(1) \in {"i686", "x86_64"}) =>
        LET dir == manifest \o << "lib", "windows",
                                  IF TargetWord(1) = "i686" THEN "x86" ELSE "x86_64" >>
        IN  /\ bpc # "panicked"
            /\ panic = ""
            /\ bpc \in {"split", "path", "search"} => stdout = << >>
            /\ bpc = "lib"  => stdout = << LinkSearch(dir) >>
            /\ bpc = "done" => stdout = << LinkSearch(dir), LinkLib("LibOVR") >>

\* The script has finished for i686-pc-windows-msvc.
Wit_C13 ==
    /\ bpc = "done"
    /\ target = << "i686", "-", "pc", "-", "windows", "-", "msvc" >>
    /\ path = manifest \o << "lib", "windows", "x86" >>
    /\ Len(stdout) = 2

\* C14: for every TARGET of at least three components whose third component
\* is neither "windows" nor "win32" the script panics with "Non-windows
\* platforms not yet supported by Oculus VR." and emits no
\* cargo:rustc-link-search or cargo:rustc-link-lib directive.
Thm_C14 ==
    (bpc # "idle" /\ TargetWord(3) # "" /\ ~WindowsTarget) =>
        /\ stdout = << >>
        /\ bpc \in {"split", "path", "panicked"}
        /\ bpc = "panicked" =>
              panic = "Non-windows platforms not yet supported by Oculus VR."
        /\ bpc # "panicked" => panic = ""

\* The script has panicked for x86_64-unknown-linux-gnu.
Wit_C14 ==
    /\ bpc = "panicked"
    /\ target = << "x86_64", "-", "unknown", "-", "linux", "-", "gnu" >>
    /\ panic = "Non-windows platforms not yet supported by Oculus VR."
    /\ stdout = << >>

\* C17: for a Windows TARGET whose architecture is neither i686 nor x86_64
\* the script does not fail: it emits
\* cargo:rustc-link-search=native=<CARGO_MANIFEST_DIR>/lib/windows with no
\* architecture sub-directory and still cargo:rustc-link-lib=static=LibOVR.
Thm_C17 ==
    (bpc # "idle" /\ WindowsTarget /\ TargetWord(1) \notin {"i686", "x86_64"}) =>
        LET dir == manifest \o << "lib", "windows" >>
        IN  /\ bpc # "panicked"
            /\ panic = ""
            /\ bpc \in {"search", "lib", "done"} => path = dir
            /\ bpc \in {"split", "path", "search"} => stdout = << >>
            /\ bpc = "lib"  => stdout = << LinkSearch(dir) >>
            /\ bpc = "done" => stdout = << LinkSearch(dir), LinkLib("LibOVR") >>

\* The script has finished for aarch64-pc-windows-msvc.
Wit_C17 ==
    /\ bpc = "done"
    /\ target = << "aarch64", "-", "pc", "-", "windows", "-", "msvc" >>
    /\ path = manifest \o << "lib", "windows" >>
    /\ Len(stdout) = 2

(***************************************************************************)
(* Properties of conditional compilation (checked under SpecCfg).          *)
(***************************************************************************)
\* C15: the sub-modules audio, directx, opengl and vulkan are present only
\* if the corresponding feature has been enabled: for every combination of
\* features and target OS each module is compiled only if its same-named
\* feature is enabled, directx and audio additionally only on Windows.
Thm_C15 ==
    /\ modules \subseteq {"audio", "directx", "opengl", "vulkan"}
    /\ \A m \in modules :
          /\ m \in features
          /\ m \in {"directx", "audio"} => cfgWindows

\* All items expanded with every feature enabled for a non-Windows target:
\* only opengl and vulkan are present.
Wit_C15 ==
    /\ item = Len(GatedItems) + 1
    /\ features = {"audio", "directx", "opengl", "vulkan"}
    /\ ~cfgWindows
    /\ modules = {"opengl", "vulkan"}

(***************************************************************************)
(* Properties of the property keys (checked under SpecKeys).               *)
(***************************************************************************)
\* C16: every property-key byte-string constant ends with a NUL byte as its
\* last byte and contains no other NUL byte, so a C string made from it by
\* CStr::from_bytes_with_nul_unchecked is valid (the reader stops inside the
\* constant) and its text is the whole key name, the constant without its
\* final NUL.
Thm_C16 ==
    /\ \A k \in KeyNames :
          LET bytes == PropertyKeys[k]
          IN  /\ Len(bytes) >= 1
              /\ bytes[Len(bytes)] = 0
              /\ \A i \in 1..(Len(bytes) - 1) : bytes[i] # 0
    /\ kpc # "overrun"
    /\ kpc \in {"scan", "done"} => pos <= Len(PropertyKeys[key])
    /\ kpc = "done" =>
          /\ pos = Len(PropertyKeys[key])
          /\ text = to_bytes(PropertyKeys[key])

\* The C side has read OVR_PERF_HUD_MODE to its end: the text is the eleven
\* bytes of "PerfHudMode".
Wit_C16 ==
    /\ kpc = "done"
    /\ key = "OVR_PERF_HUD_MODE"
    /\ Len(text) = 11
    /\ text = to_bytes(OVR_PERF_HUD_MODE)

(***************************************************************************)
(* Distinctness of the result constants (checked under SpecResult).        *)
(***************************************************************************)
\* The named conditions a result value stands for.
NamesOf(res) == { n \in DOMAIN ResultConstants : ResultConstants[n] = res }

\* C18: all ovrResult constants declared in lib.rs (ovrSuccess, the three
\* ovrSuccess_* codes and every ovrError_* code) are pairwise distinct, so a
\* returned ovrResult value identifies at most one named condition.
Thm_C18 ==
    /\ \A a, b \in DOMAIN ResultConstants :
          a # b => ResultConstants[a] # ResultConstants[b]
    /\ Cardinality(NamedCodes) = Cardinality(DOMAIN ResultConstants)
    /\ Cardinality(NamesOf(r)) <= 1
    /\ r \in NamedCodes => Cardinality(NamesOf(r)) = 1

\* A call has returned -2002 and was classified as a failure: the value names
\* ovrError_AudioComError and nothing else.
Wit_C18 ==
    /\ r = -2002
    /\ Called("OVR_FAILURE") /\ failure
    /\ NamesOf(r) = {"ovrError_AudioComError"}

====
